---- MODULE Spec2Model ----
(***************************************************************************)
(* Model of git-sync (alicederyn/git-sync).                                *)
(*                                                                         *)
(* The repository is modelled by its local branches (tip commit and        *)
(* configured upstream), its remote-tracking refs, HEAD, and whether the   *)
(* index / working tree carry uncommitted changes.  The git commands the   *)
(* program runs are operators on that state that return an exit code, as   *)
(* the code branches on exit codes (git.py:21-37).                         *)
(*                                                                         *)
(* update_merged_prs (git.py:204-227) reads pr.branch_hash: the newest     *)
(* commit recorded for the pull request, as the integration tests build   *)
(* it.  Pull requests are modelled with that field.  A merged_hash, when   *)
(* present, names a commit of the local object database (stage (a) has     *)
(* fetched every remote); a branch_hash may name no local object.          *)
(***************************************************************************)
EXTENDS Integers, Sequences, FiniteSets, TLC

(* ------------------------------ bounds -------------------------------- *)

\* Pull requests handed to one run of update_merged_prs.
MaxPRs == 2

\* The largest max_concurrency fetch_pull_requests is called with.
MaxConcurrency == 2

\* Pull requests the initial response of one domain lists.
MaxNodes == 2

(* ------------------------- the commit graph --------------------------- *)

\*   A --- B --- D          B: head of a pull request, D: one more commit
\*    \
\*     C --- E              C: squash merge of B, E: work started from C
\*      \
\*       F                  F: squash merge of E
Commits == {"A", "B", "C", "D", "E", "F"}

Parents ==
    [c \in Commits |->
        CASE c = "A" -> {}
          [] c = "B" -> {"A"}
          [] c = "C" -> {"A"}
          [] c = "D" -> {"B"}
          [] c = "E" -> {"C"}
          [] c = "F" -> {"C"}]

RECURSIVE Ancestors(_)
\* The commits reachable from c by parent links, c included.
Ancestors(c) == {c} \cup UNION {Ancestors(p) : p \in Parents[c]}

\* A hash that names no object of the local repository.
Gone == "gone"
\* PullRequest.merged_hash of a pull request that was not merged.
None == "None"
\* A ref that does not exist.
Absent == "absent"
\* HEAD is not a symbolic ref.
Detached == "detached"

(* ------------------------------- refs --------------------------------- *)

Names == {"main", "my_pr", "more_work"}

NoUpstream == <<>>
Heads(n) == <<"refs", "heads", n>>
Remotes(r, n) == <<"refs", "remotes", r, n>>

RemoteRefs ==
    {Remotes("origin", "main"), Remotes("fork", "main"), Remotes("fork", "my_pr")}

\* bytes.startswith(b"refs/heads/")
StartsWithHeads(u) == Len(u) >= 3 /\ u[1] = "refs" /\ u[2] = "heads"
\* bytes.startswith(b"refs/remotes/")
StartsWithRemotes(u) == Len(u) >= 3 /\ u[1] = "refs" /\ u[2] = "remotes"
\* bytes.removeprefix(b"refs/heads/"): the rest of the path, or the
\* argument itself when it does not start with the prefix.
RemovePrefixHeads(u) == IF StartsWithHeads(u) THEN SubSeq(u, 3, Len(u)) ELSE u

(* ------------------------------ state --------------------------------- *)

VARIABLES
    tip,            \* local branch name -> tip commit, or Absent
    upstream,       \* local branch name -> configured upstream ref
    rtrack,         \* remote-tracking ref -> commit, or Absent
    head,           \* checked-out branch name, or Detached
    index,          \* "clean" | "staged"
    worktree,       \* "clean" | "modified" (tracked files)
    allow_delete,   \* update_merged_prs argument
    push_remote_url,\* update_merged_prs argument
    branch_hashes,  \* the map read once by update_merged_prs
    pc,             \* position of the main coroutine
    npr,            \* pull requests processed so far in this run
    cur,            \* the pull request processed by the last iteration
    issued,         \* mutating git commands issued by the last iteration
    acted,          \* "none" | "skip_dirty" | "delete" | "force"
    ancestry,       \* the is_ancestor call of the last iteration: whether it
                    \*   was made, the exit code of merge-base, the outcome
    prs,            \* the list handed to update_merged_prs, when it is kept
    run,            \* 1, or 2 when update_merged_prs runs again on prs
    remote_tip,     \* remote-tracking ref -> the branch's commit on the remote
    push_remote,    \* remote.pushdefault, or None
    has_urls,       \* the remotes of the repository have URLs
    task,           \* pull_request_task: "none" | "pending" | "running" |
                    \*   "done" | "failed" | "cancelled"
    inflight,       \* git subprocesses spawned and not yet waited for
    began,          \* stages of git_sync that have spawned a git command
    branches,       \* the list returned by get_branches_with_remote_upstreams
    remote_branches,\* the set read by fast_forward_to_downstream
    pushi,          \* branches already visited by its loop
    refspecs,       \* <upstream, name> pairs of the last targeted fetch
    exit_code,      \* the code sys.exit was called with, or None
    last_exit,      \* exit code of the last git subprocess git_sync waited
                    \*   for outside update_merged_prs, or None
    urls,           \* the domain of each URL handed to fetch_pull_requests
    service,        \* domain -> the pull requests its service holds, in
                    \*   the order of its responses
    domains,        \* the keys of repos_by_domain(urls)
    tokens,         \* domain -> the token lookup returns a token
    max_concurrency,\* fetch_pull_requests argument
    dstate,         \* domain -> state of its fetch(domain, repos): "none" |
                    \*   "queued" | "wait_initial" | "wait_details" |
                    \*   "done" | "failed" | "cancelled"
    semaphore,      \* the value of Semaphore(max_concurrency): free permits
    requests,       \* domain -> the GraphQL requests sent to it, in order
    responses,      \* domain -> what each response reported: "ok" | "errors"
    nodes,          \* domain -> pull requests listed by its initial response
    pr_lists        \* domain -> the list its fetch returned

vars == <<tip, upstream, rtrack, head, index, worktree, allow_delete,
          push_remote_url, branch_hashes, pc, npr, cur, issued, acted,
          ancestry,
          prs, run, remote_tip, push_remote, has_urls, task, inflight,
          began, branches, remote_branches, pushi, refspecs, exit_code,
          last_exit, urls, service, domains,
          tokens, max_concurrency, dstate, semaphore, requests, responses,
          nodes, pr_lists>>

\* The state of fetch_pull_requests.
fetcher == <<urls, service, domains, tokens, max_concurrency, dstate,
             semaphore, requests, responses, nodes, pr_lists>>

\* The state of git_sync outside update_merged_prs.
sync == <<remote_tip, push_remote, has_urls, task, inflight, branches,
          remote_branches, pushi, refspecs, exit_code, last_exit, fetcher>>

\* The list of a first run, kept for a second one.
twice == <<prs, run>>

repo == <<tip, upstream, rtrack, head, index, worktree>>

LocalBranches == {n \in Names : tip[n] # Absent}

(* ------------------------- pull requests ------------------------------ *)

ForkUrls == {"git@fork", "https://fork", "https://fork.git"}
OtherUrls == {"git@other", "https://other", "https://other.git"}

\* The pull requests a run may be handed: for main and my_pr every
\* combination of newest commit and merge commit, with the push remote as
\* head repository; one for more_work; an unmerged one for main and for
\* my_pr; one from a repository that is not the push remote's, and one
\* whose head repository is gone (no URL at all).
PullRequests ==
    [branch_name : {"main", "my_pr"},
     repo_urls   : {ForkUrls},
     branch_hash : {"B", "D", "E", Gone},
     merged_hash : {"C", "F"}]
    \cup
    [branch_name : {"more_work"},
     repo_urls   : {ForkUrls},
     branch_hash : {"D"},
     merged_hash : {"C"}]
    \cup
    [branch_name : {"main", "my_pr"},
     repo_urls   : {ForkUrls},
     branch_hash : {"B"},
     merged_hash : {None}]
    \cup
    [branch_name : {"my_pr"},
     repo_urls   : {{}, OtherUrls},
     branch_hash : {"B"},
     merged_hash : {"C"}]

\* The domains of the remotes' URLs (repos_by_domain).
Domains == {"github.com", "ghe.example.com", "gitlab.example.com"}

\* fetch_pull_requests has not been called.
NoFetch ==
    /\ urls = <<>>
    /\ service = [d \in Domains |-> <<>>]
    /\ domains = {}
    /\ tokens = [d \in Domains |-> FALSE]
    /\ max_concurrency = 5
    /\ dstate = [d \in Domains |-> "none"]
    /\ semaphore = max_concurrency
    /\ requests = [d \in Domains |-> <<>>]
    /\ responses = [d \in Domains |-> <<>>]
    /\ nodes = [d \in Domains |-> 0]
    /\ pr_lists = [d \in Domains |-> <<>>]

NoPR == [branch_name |-> "main", repo_urls |-> {}, branch_hash |-> Gone,
         merged_hash |-> None]

(* --------------------------- git commands ----------------------------- *)

\* git merge-base --is-ancestor <branch> <hash>: exit 0 when the branch tip
\* is an ancestor of the commit, 1 when it is not, 128 when a revision does
\* not resolve.
MergeBaseIsAncestorExit(branch, hash) ==
    IF tip[branch] = Absent \/ hash \notin Commits THEN 128
    ELSE IF tip[branch] \in Ancestors(hash) THEN 0
    ELSE 1

\* is_ancestor with exit code 1 taken for success.
is_ancestor_exit1_true(branch, hash) ==
    LET returncode == MergeBaseIsAncestorExit(branch, hash)
    IN  IF returncode = 0 \/ returncode = 1 THEN "true" ELSE "raise"

\* is_ancestor: "true" | "false" | "raise" (GitError re-raised).
is_ancestor(branch, hash) ==
    LET returncode == MergeBaseIsAncestorExit(branch, hash)
    IN  IF returncode = 0 THEN "true"
        ELSE IF returncode = 1 THEN "false"
        ELSE "raise"

\* e.returncode of the GitError that is_ancestor lets through, or 0.
is_ancestor_error(returncode) ==
    IF returncode = 0 \/ returncode = 1 THEN 0 ELSE returncode

\* No call of is_ancestor was made.
NoAncestry == [called |-> FALSE, exit |-> 0, outcome |-> "none", error |-> 0]

\* Exit codes the merge-base subprocess may end with whatever the commits
\* are (here: killed by SIGTERM), and 0 for an undisturbed run.
Faults == {0, -15}

\* get_current_branch()[11:], or Detached for None.
get_current_branch == head

\* get_branch_hashes: every local branch with its tip.
get_branch_hashes == tip

\* get_upstream_branch: the upstream as a local branch name, or NoUpstream.
get_upstream_branch(branch_name) ==
    LET up == upstream[branch_name]
    IN  IF up # NoUpstream /\ StartsWithHeads(up)
        THEN RemovePrefixHeads(up)
        ELSE NoUpstream

\* branch_is_an_upstream: the name is among the upstreams of the local
\* branches, each with the refs/heads/ prefix removed.
branch_is_an_upstream(branch_name) ==
    LET upstream_heads ==
            {RemovePrefixHeads(upstream[n]) : n \in LocalBranches}
    IN  <<branch_name>> \in upstream_heads

\* The remote-tracking refs named <name> that git checkout may guess from.
TrackingCandidates(name) ==
    {r \in RemoteRefs : rtrack[r] # Absent /\ r[4] = name}

\* A repository state as a record, threaded through a run of commands.
RepoNow ==
    [tip |-> tip, upstream |-> upstream, head |-> head,
     index |-> index, worktree |-> worktree, ok |-> TRUE]

\* git checkout <name> on a clean working tree.  An existing branch is
\* checked out; a name that exists as the branch of exactly one remote is
\* created from it, tracking it; anything else fails.
GitCheckout(s, name) ==
    IF s.tip[name] # Absent
    THEN [s EXCEPT !.head = name]
    ELSE IF Cardinality(TrackingCandidates(name)) = 1
    THEN LET r == CHOOSE x \in TrackingCandidates(name) : TRUE
         IN  [s EXCEPT !.tip[name] = rtrack[r],
                       !.upstream[name] = r,
                       !.head = name]
    ELSE [s EXCEPT !.ok = FALSE]

\* git branch -D <name>: fails for a branch that does not exist or that is
\* checked out, else removes the branch and its configuration.
GitBranchDelete(s, name) ==
    IF s.tip[name] = Absent \/ s.head = name
    THEN [s EXCEPT !.ok = FALSE]
    ELSE [s EXCEPT !.tip[name] = Absent, !.upstream[name] = NoUpstream]

\* git branch --force <name> <hash>: fails for the checked-out branch or an
\* unknown commit, else points the branch at the commit.
GitBranchForce(s, name, hash) ==
    IF s.head = name \/ hash \notin Commits
    THEN [s EXCEPT !.ok = FALSE]
    ELSE [s EXCEPT !.tip[name] = hash]

\* git reset --hard <hash>: moves the checked-out branch and overwrites
\* the index and the working tree.
GitResetHard(s, hash) ==
    IF hash \notin Commits
    THEN [s EXCEPT !.ok = FALSE]
    ELSE [s EXCEPT !.tip = IF s.head = Detached THEN s.tip
                           ELSE [s.tip EXCEPT ![s.head] = hash],
                   !.index = "clean",
                   !.worktree = "clean"]

\* The staged-changes probe never reporting anything.
any_staged_changes_unseen == FALSE

\* git diff --cached --exit-code prints something iff there are staged
\* changes; git diff --exit-code iff tracked files are modified.
any_staged_changes == index = "staged"
any_unstaged_changes_to_committed_files == worktree = "modified"

(* ----------------------- update_merged_pr_branch ---------------------- *)

\* The comparison replaced by "some branch is checked out".
is_current_any(branch_name) == get_current_branch # Detached

\* current_branch == branch_name
is_current(branch_name) == get_current_branch = branch_name

\* The delete decision without the upstream check.
want_delete_ignoring_upstream(branch_name) == allow_delete

\* The delete decision without the allow_delete flag.
want_delete_ignoring_flag(branch_name) == ~branch_is_an_upstream(branch_name)

\* The delete decision with the upstream check inverted.
want_delete_inverted(branch_name) ==
    allow_delete /\ branch_is_an_upstream(branch_name)

\* allow_delete and not await branch_is_an_upstream(branch_name)
want_delete(branch_name) == allow_delete /\ ~branch_is_an_upstream(branch_name)

\* (await get_upstream_branch(branch_name)) or b"main"
checkout_target(branch_name) ==
    LET local_up == get_upstream_branch(branch_name)
    IN  IF local_up # NoUpstream THEN local_up[1] ELSE "main"

\* The outcome of update_merged_pr_branch: the repository afterwards
\* (ok = FALSE when a GitError propagates), the mutating commands issued,
\* and the path taken.
update_merged_pr_branch(branch_name, merged_hash) ==
    IF is_current(branch_name)
    THEN
        IF any_staged_changes
        THEN [repo |-> RepoNow, issued |-> <<>>, acted |-> "skip_dirty"]
        ELSE IF any_unstaged_changes_to_committed_files
        THEN [repo |-> RepoNow, issued |-> <<>>, acted |-> "skip_dirty"]
        ELSE IF want_delete(branch_name)
        THEN LET target == checkout_target(branch_name)
                 s1     == GitCheckout(RepoNow, target)
             IN  IF ~s1.ok
                 THEN [repo |-> s1,
                       issued |-> << <<"checkout", target, "">> >>,
                       acted |-> "delete"]
                 ELSE [repo |-> GitBranchDelete(s1, branch_name),
                       issued |-> << <<"checkout", target, "">>,
                                     <<"branch -D", branch_name, "">> >>,
                       acted |-> "delete"]
        ELSE [repo |-> GitResetHard(RepoNow, merged_hash),
              issued |-> << <<"reset --hard", merged_hash, "">> >>,
              acted |-> "force"]
    ELSE
        IF want_delete(branch_name)
        THEN [repo |-> GitBranchDelete(RepoNow, branch_name),
              issued |-> << <<"branch -D", branch_name, "">> >>,
              acted |-> "delete"]
        ELSE [repo |-> GitBranchForce(RepoNow, branch_name, merged_hash),
              issued |-> << <<"branch --force", branch_name, merged_hash>> >>,
              acted |-> "force"]

(* --------------------------- update_merged_prs ------------------------ *)

\* The four conditions of the if statement, on the map read before the loop.
PassesFilter_any_repo(pr) ==
    /\ pr.merged_hash # None
    /\ branch_hashes[pr.branch_name] # Absent
    /\ pr.merged_hash # branch_hashes[pr.branch_name]

PassesFilter(pr) ==
    /\ pr.merged_hash # None
    /\ branch_hashes[pr.branch_name] # Absent
    /\ pr.merged_hash # branch_hashes[pr.branch_name]
    /\ push_remote_url \in pr.repo_urls

\* The filter and the ancestry check.
PassesGates(pr) ==
    /\ PassesFilter(pr)
    /\ is_ancestor(pr.branch_name, pr.branch_hash) = "true"

\* "except GitError: pass" around the call of is_ancestor: which exit
\* codes of a raised GitError are swallowed.
SwallowsGitError_never(returncode) ==
    FALSE

SwallowsGitError(returncode) ==
    TRUE

\* update_merged_prs up to the loop: read the branch -> hash map.
StartUpdateMergedPrs ==
    /\ pc = "ump_start"
    /\ branch_hashes' = get_branch_hashes
    /\ pc' = "ump_loop"
    /\ began' = began \cup {"c"}
    /\ UNCHANGED <<repo, allow_delete, push_remote_url, npr, cur, issued,
                   acted, ancestry, twice, sync>>

\* The try statement of the loop body: is_ancestor on the branch and the
\* pull request's commit, then update_merged_pr_branch when it says yes.
TryIsAncestor(pr) ==
    /\ \E fault \in Faults :
        IF PassesFilter(pr) /\ fault # 0
        THEN \* the subprocess of is_ancestor fails: GitError
             /\ ancestry' = [called |-> TRUE, exit |-> fault,
                             outcome |-> "raise",
                             error |-> is_ancestor_error(fault)]
             /\ UNCHANGED <<tip, upstream, head, index, worktree>>
             /\ issued' = <<>>
             /\ acted' = "none"
             /\ pc' = IF SwallowsGitError(fault) THEN "ump_loop"
                      ELSE "ump_raised"
        ELSE IF PassesFilter(pr)
        THEN LET returncode ==
                     MergeBaseIsAncestorExit(pr.branch_name, pr.branch_hash)
                 branch_is_ancestor ==
                     is_ancestor(pr.branch_name, pr.branch_hash)
                 r == update_merged_pr_branch(pr.branch_name, pr.merged_hash)
             IN  /\ ancestry' = [called |-> TRUE, exit |-> returncode,
                                 outcome |-> branch_is_ancestor,
                                 error |-> is_ancestor_error(returncode)]
                 /\ IF branch_is_ancestor = "true"
                    THEN /\ tip' = r.repo.tip
                         /\ upstream' = r.repo.upstream
                         /\ head' = r.repo.head
                         /\ index' = r.repo.index
                         /\ worktree' = r.repo.worktree
                         /\ issued' = r.issued
                         /\ acted' = r.acted
                         /\ pc' = IF r.repo.ok THEN "ump_loop"
                                  ELSE "ump_raised"
                    ELSE /\ UNCHANGED <<tip, upstream, head, index, worktree>>
                         /\ issued' = <<>>
                         /\ acted' = "none"
                         /\ pc' = IF branch_is_ancestor = "false"
                                     \/ SwallowsGitError(returncode)
                                  THEN "ump_loop" ELSE "ump_raised"
        ELSE /\ UNCHANGED <<tip, upstream, head, index, worktree, pc>>
             /\ ancestry' = NoAncestry
             /\ issued' = <<>>
             /\ acted' = "none"

\* One iteration of the loop, for pull request pr.
DoPR(pr) ==
    /\ pc = "ump_loop"
    /\ npr < MaxPRs
    /\ npr' = npr + 1
    /\ cur' = pr
    /\ UNCHANGED <<rtrack, allow_delete, push_remote_url, branch_hashes,
                   sync, began>>
    /\ IF PassesFilter(pr) /\ "branch_hash" \notin DOMAIN pr
       THEN \* pr.branch_hash: the object has no such attribute
            /\ ancestry' = NoAncestry
            /\ UNCHANGED <<tip, upstream, head, index, worktree>>
            /\ issued' = <<>>
            /\ acted' = "none"
            /\ pc' = "ump_raised"
       ELSE TryIsAncestor(pr)

\* One iteration, for whatever pull request comes next in the list.
ProcessPR ==
    /\ \E pr \in PullRequests : DoPR(pr)
    /\ UNCHANGED twice

\* One iteration, for the next pull request of the list that
\* fetch_pull_requests returned.
ProcessFetchedPR ==
    /\ npr < Len(prs)
    /\ DoPR(prs[npr + 1])
    /\ UNCHANGED twice

\* That list is exhausted.
FinishFetchedPrs ==
    /\ pc = "ump_loop"
    /\ npr = Len(prs)
    /\ pc' = "ump_done"
    /\ UNCHANGED <<repo, allow_delete, push_remote_url, branch_hashes, npr,
                   cur, issued, acted, ancestry, twice, sync, began>>

\* The list of pull requests is exhausted.
FinishUpdateMergedPrs ==
    /\ pc = "ump_loop"
    /\ run = 1 \/ npr = Len(prs)
    /\ pc' = "ump_done"
    /\ UNCHANGED <<repo, allow_delete, push_remote_url, branch_hashes, npr,
                   cur, issued, acted, ancestry, twice, sync, began>>

(* ------------------------------ Init ----------------------------------- *)

UpstreamChoices(n) ==
    CASE n = "main"      -> {NoUpstream, Remotes("origin", "main")}
      [] n = "my_pr"     -> {Heads("main"), Remotes("fork", "my_pr")}
      [] n = "more_work" -> {NoUpstream, Heads("my_pr")}

TipChoices(n) ==
    CASE n = "main"      -> {Absent, "C"}
      [] n = "my_pr"     -> {"B", "C", "D"}
      [] n = "more_work" -> {"D"}

\* A branch that does not exist has no configuration, and the upstream of
\* a branch is a remote-tracking ref or another existing local branch.
WellFormedRepo(t, u) ==
    \A n \in Names :
        /\ t[n] = Absent => u[n] = NoUpstream
        /\ (n = "main" /\ t[n] # Absent) => u[n] # NoUpstream
        /\ StartsWithHeads(u[n]) => /\ u[n][3] # n
                                    /\ t[u[n][3]] # Absent

InitRepo ==
    /\ tip \in {t \in [Names -> Commits \cup {Absent}] :
                    \A n \in Names : t[n] \in TipChoices(n)}
    /\ upstream \in {u \in [Names -> UNION {UpstreamChoices(n) : n \in Names}] :
                    /\ \A n \in Names : u[n] \in UpstreamChoices(n)
                    /\ WellFormedRepo(tip, u)}
    /\ rtrack \in {[r \in RemoteRefs |->
                        CASE r = Remotes("origin", "main") -> m
                          [] r = Remotes("fork", "main")   -> Absent
                          [] r = Remotes("fork", "my_pr")  -> "B"] :
                    m \in IF tip["main"] = Absent THEN {Absent, "F"} ELSE {"F"}}
    /\ head \in LocalBranches \cup {Detached}
    /\ index \in {"clean", "staged"}
    /\ worktree \in {"clean", "modified"}

Init ==
    /\ InitRepo
    /\ allow_delete \in BOOLEAN
    /\ push_remote_url = "https://fork.git"
    /\ branch_hashes = [n \in Names |-> Absent]
    /\ pc = "ump_start"
    /\ npr = 0
    /\ cur = NoPR
    /\ issued = <<>>
    /\ acted = "none"
    /\ ancestry = NoAncestry
    /\ prs = <<>>
    /\ run = 1
    /\ remote_tip = rtrack
    /\ push_remote = "fork"
    /\ has_urls = TRUE
    /\ task = "done"
    /\ inflight = {}
    /\ began = {}
    /\ branches = <<>>
    /\ remote_branches = {}
    /\ pushi = 0
    /\ refspecs = {}
    /\ exit_code = None
    /\ last_exit = None
    /\ NoFetch

Next ==
    \/ StartUpdateMergedPrs
    \/ ProcessPR
    \/ FinishUpdateMergedPrs

Spec == Init /\ [][Next]_vars

(* ------------- update_merged_prs run twice on the same list ------------ *)

\* The pull requests of the two-run scenario: merged pull requests of
\* my_pr from the push remote's repository.
TwicePullRequests ==
    {pr \in PullRequests :
        /\ pr.branch_name = "my_pr"
        /\ pr.merged_hash # None
        /\ pr.repo_urls = ForkUrls}

\* An iteration of the first run; the pull request is appended to prs.
FirstRunPR ==
    /\ run = 1
    /\ \E pr \in TwicePullRequests :
            /\ DoPR(pr)
            /\ prs' = Append(prs, pr)
    /\ UNCHANGED run

\* The first run has returned; update_merged_prs is called again with the
\* same arguments.
Rerun ==
    /\ run = 1
    /\ pc = "ump_done"
    /\ run' = 2
    /\ pc' = "ump_start"
    /\ npr' = 0
    /\ cur' = NoPR
    /\ issued' = <<>>
    /\ acted' = "none"
    /\ ancestry' = NoAncestry
    /\ UNCHANGED <<repo, allow_delete, push_remote_url, branch_hashes, prs,
                   sync, began>>

\* An iteration of the second run, on the same list.
SecondRunPR ==
    /\ run = 2
    /\ npr < Len(prs)
    /\ DoPR(prs[npr + 1])
    /\ UNCHANGED twice

NextTwice ==
    \/ StartUpdateMergedPrs
    \/ FirstRunPR
    \/ FinishUpdateMergedPrs
    \/ Rerun
    \/ SecondRunPR

SpecTwice == Init /\ [][NextTwice]_vars

(* ------------------------------ git_sync ------------------------------- *)

\* for-each-ref lists refs/heads in refname order.
BranchOrder == <<"main", "more_work", "my_pr">>

\* get_branches_with_remote_upstreams: the local branches whose upstream
\* starts with refs/remotes/, each with is_current.
get_branches_with_remote_upstreams ==
    LET current_branch == IF head = Detached THEN NoUpstream ELSE Heads(head)
        all == [i \in 1..Len(BranchOrder) |->
                    [name       |-> Heads(BranchOrder[i]),
                     upstream   |-> upstream[BranchOrder[i]],
                     is_current |-> Heads(BranchOrder[i]) = current_branch]]
        Listed(b) == tip[b.name[3]] # Absent /\ StartsWithRemotes(b.upstream)
    IN  SelectSeq(all, Listed)

\* get_remote_branches(remote): the remote-tracking refs of the remote.
get_remote_branches(remote) ==
    {r \in RemoteRefs : r[3] = remote /\ rtrack[r] # Absent}

\* The stages of git_sync in program order: enumerate, (a) upstream,
\* (b) downstream, (c) await the pull requests and update_merged_prs.
NextStage_swapped(stage) ==
    CASE stage = "enum" -> "b"
      [] stage = "b"    -> "a"
      [] stage = "a"    -> "c"
      [] stage = "c"    -> "end"

NextStage(stage) ==
    CASE stage = "enum" -> "a"
      [] stage = "a"    -> "b"
      [] stage = "b"    -> "c"
      [] stage = "c"    -> "end"

Cmd(stage, name, arg) == [stage |-> stage, name |-> name, arg |-> arg]

\* The first index after i of a branch that fast_forward_to_downstream
\* pushes, or 0: its remote-tracking ref on the push remote exists and is
\* not the branch's upstream.
PushCondition(b, rbs) ==
    LET remote == Remotes(push_remote, b.name[3])
    IN  remote \in rbs /\ b.upstream # remote

NextPush(brs, rbs, i) ==
    LET later == {k \in (i + 1)..Len(brs) : PushCondition(brs[k], rbs)}
    IN  IF later = {} THEN 0
        ELSE CHOOSE k \in later : \A j \in later : k <= j

\* bool(remote_urls): the URLs of the remotes are read only when there is a
\* default push remote, and the list is empty otherwise.
remote_urls_ungated ==
    has_urls

remote_urls ==
    push_remote # None /\ has_urls

\* Where the main coroutine goes when it enters a stage, and the command it
\* spawns there, for the list of branches brs.
EnterStage(stage, brs) ==
    CASE stage = "a" ->
            [pc   |-> "wait_all",
             cmds |-> {Cmd("a",
                           IF \E k \in 1..Len(brs) : brs[k].is_current
                           THEN "pull --all" ELSE "fetch --all", "")}]
      [] stage = "b" ->
            IF push_remote # None
            THEN [pc   |-> "wait_remote_branches",
                  cmds |-> {Cmd("b", "for-each-ref", push_remote)}]
            ELSE [pc |-> "sync_done", cmds |-> {}]
      [] stage = "c" ->
            IF push_remote # None /\ remote_urls
            THEN [pc |-> "await_task", cmds |-> {}]
            ELSE [pc |-> "sync_done", cmds |-> {}]
      [] stage = "end" ->
            [pc |-> "sync_done", cmds |-> {}]

\* The main coroutine leaves the stage it is in and enters the next one.
Enter(stage, brs) ==
    LET e == EnterStage(stage, brs)
    IN  /\ pc' = e.pc
        /\ inflight' = (inflight \ {c \in inflight : c.stage # "c"}) \cup e.cmds
        /\ began' = began \cup {c.stage : c \in e.cmds}

\* The main coroutine ends by an exception or sys.exit; asyncio.run cancels
\* the task if it has not finished.
Cancelled == IF task \in {"pending", "running"} THEN "cancelled" ELSE task

\* The fetches inside "async with semaphore".
Holders == {d \in domains : dstate[d] \in {"wait_initial", "wait_details"}}

\* The semaphore once every fetch inside it has been cancelled: leaving
\* "async with semaphore" by CancelledError releases the permit.
ReleasedByCancel == semaphore + Cardinality(Holders)

\* ... and every fetch(domain, repos) that has not finished.
CancelledFetches ==
    [d \in Domains |->
        IF dstate[d] \in {"queued", "wait_initial", "wait_details"}
        THEN "cancelled" ELSE dstate[d]]

\* A URL that parse_repo_url finds no repository in.
NoRepository == "not-a-repository"

RECURSIVE repos_by_domain(_)
\* repos_by_domain(urls).keys(): the domains of the URLs that name a
\* repository, each once, in the order of their first appearance (a dict
\* keeps insertion order).
repos_by_domain(us) ==
    IF us = <<>> THEN <<>>
    ELSE LET before == repos_by_domain(SubSeq(us, 1, Len(us) - 1))
             domain == us[Len(us)]
         IN  IF domain = NoRepository
                    \/ \E k \in 1..Len(before) : before[k] = domain
             THEN before
             ELSE Append(before, domain)

\* headRepository of a pull request: null reads as no sshUrl and no url.
NullRepository == [sshUrl |-> None, url |-> None]
ForkRepository == [sshUrl |-> "git@fork", url |-> "https://fork"]
OtherRepository == [sshUrl |-> None, url |-> "https://other"]

\* The pull requests a service may hold, as the details query returns
\* them: commits oldest first, mergeCommit with a null oid when there is
\* none.
ServiceData ==
    << [headRefName |-> "my_pr", headRepository |-> ForkRepository,
        commits |-> <<"B", "D">>, mergeCommit |-> [oid |-> "C"]],
       [headRefName |-> "main", headRepository |-> NullRepository,
        commits |-> <<"B">>, mergeCommit |-> [oid |-> None]],
       [headRefName |-> "more_work", headRepository |-> OtherRepository,
        commits |-> <<"C", "E">>, mergeCommit |-> [oid |-> "F"]] >>

\* The first n pull requests of a service, which starts its list at the
\* given entry of ServiceData.
ServiceList(first, n) ==
    [i \in 1..n |-> ServiceData[((first + i - 2) % Len(ServiceData)) + 1]]

ServiceFirst(d) ==
    CASE d = "github.com" -> 1
      [] d = "ghe.example.com" -> 2
      [] d = "gitlab.example.com" -> 3

\* repo_urls(pr_data): the SSH URL, the HTTP URL and the HTTP URL with
\* ".git", of those the head repository has.
repo_urls(pr_data) ==
    LET head_repo == pr_data.headRepository
    IN  (IF head_repo.sshUrl # None THEN {head_repo.sshUrl} ELSE {})
        \cup
        (IF head_repo.url # None
         THEN {head_repo.url, head_repo.url \o ".git"} ELSE {})

\* reversed(pr_data["commits"]["nodes"]), as a tuple of oids.
hashes_oldest_first(pr_data) ==
    pr_data.commits

hashes(pr_data) ==
    [i \in 1..Len(pr_data.commits) |->
        pr_data.commits[Len(pr_data.commits) - i + 1]]

\* The PullRequest object built from one entry of the details response.
PullRequest(pr_data) ==
    [branch_name |-> pr_data.headRefName,
     repo_urls   |-> repo_urls(pr_data),
     hashes      |-> hashes(pr_data),
     merged_hash |-> pr_data.mergeCommit.oid]

RECURSIVE Concat(_, _)
\* [pr for pr_list in pr_lists for pr in pr_list], pr_lists being the
\* results of the tasks in the order the tasks were created.
Concat(order, lists) ==
    IF order = <<>> THEN <<>>
    ELSE lists[Head(order)] \o Concat(Tail(order), lists)

JoinedLists_by_name ==
    Concat(<<"ghe.example.com", "github.com", "gitlab.example.com">>,
           pr_lists)

JoinedLists ==
    Concat(repos_by_domain(urls), pr_lists)

\* What fetch_pull_requests was called with and what it exchanged.
exchanged == <<urls, service, domains, tokens, max_concurrency, requests,
               responses, nodes, pr_lists>>

\* git(..., check_return): GitError is raised on a nonzero exit code unless
\* check_return is false.
GitRaises_unchecked(returncode, check_return) ==
    returncode # 0

GitRaises(returncode, check_return) ==
    returncode # 0 /\ check_return

\* sys.exit(code): the exit status of the run.
sys_exit_failure(returncode) ==
    1

sys_exit(returncode) ==
    returncode

\* git_sync from the creation of the task to the first subprocess of
\* get_branches_with_remote_upstreams.
GitSyncStart ==
    /\ pc = "sync_start"
    /\ task' = IF remote_urls THEN "pending" ELSE "none"
    /\ inflight' = {Cmd("enum", "symbolic-ref", "")}
    /\ began' = {"enum"}
    /\ pc' = "wait_symbolic_ref"
    /\ UNCHANGED <<repo, allow_delete, push_remote_url, branch_hashes, npr,
                   cur, issued, acted, ancestry, twice, remote_tip, push_remote,
                   has_urls, branches, remote_branches, pushi, refspecs, exit_code,
                   last_exit,
                   fetcher>>

\* get_current_branch returns (symbolic-ref -q exits with 1 on a detached
\* HEAD, and the code is ignored); for-each-ref is spawned.
EnumCurrentBranchDone ==
    /\ pc = "wait_symbolic_ref"
    /\ last_exit' = IF head = Detached THEN 1 ELSE 0
    /\ inflight' = {Cmd("enum", "for-each-ref", "refs/heads")}
    /\ pc' = "wait_for_each_ref"
    /\ UNCHANGED <<repo, allow_delete, push_remote_url, branch_hashes, npr,
                   cur, issued, acted, ancestry, twice, remote_tip, push_remote,
                   has_urls, task, began, branches, remote_branches, pushi, refspecs,
                   exit_code, fetcher>>

\* for-each-ref exits: with a nonzero code git_sync exits with it, else
\* the list of branches is built and stage (a) starts.
EnumBranchesDone ==
    /\ pc = "wait_for_each_ref"
    /\ \E returncode \in {0, 1, 128} :
        /\ last_exit' = returncode
        /\ IF returncode # 0
           THEN /\ pc' = "exited"
                /\ exit_code' = sys_exit(returncode)
                /\ inflight' = {}
                /\ task' = Cancelled
                /\ dstate' = CancelledFetches
                /\ semaphore' = ReleasedByCancel
                /\ UNCHANGED <<branches, began>>
           ELSE /\ branches' = get_branches_with_remote_upstreams
                /\ Enter(NextStage("enum"), get_branches_with_remote_upstreams)
                /\ UNCHANGED <<task, dstate, semaphore, exit_code>>
    /\ UNCHANGED <<repo, allow_delete, push_remote_url, branch_hashes, npr,
                   cur, issued, acted, ancestry, twice, remote_tip, push_remote,
                   has_urls, remote_branches, pushi, refspecs, exchanged>>

\* git fetch --all: every remote-tracking ref follows its remote branch.
FetchAll ==
    [r \in RemoteRefs |->
        IF remote_tip[r] = Absent THEN rtrack[r] ELSE remote_tip[r]]

\* The branches fetch_and_fast_forward_to_upstream fetches into.
fetch_args_with_current == 1..Len(branches)

fetch_args == {k \in 1..Len(branches) : ~branches[k].is_current}

\* The <upstream>:<name> arguments built from them.
Refspecs(args) == {<<branches[k].upstream, branches[k].name>> : k \in args}

\* The main coroutine after the first command of stage (a).
AfterAll_without_wait ==
    IF fetch_args # {}
    THEN /\ pc' = "wait_fetch"
         /\ inflight' = inflight \cup {Cmd("a", "fetch .", "")}
         /\ refspecs' = Refspecs(fetch_args)
         /\ UNCHANGED began
    ELSE /\ Enter(NextStage("a"), branches)
         /\ UNCHANGED refspecs

AfterAll ==
    IF fetch_args # {}
    THEN /\ pc' = "wait_fetch"
         /\ inflight' = {Cmd("a", "fetch .", "")}
         /\ refspecs' = Refspecs(fetch_args)
         /\ UNCHANGED began
    ELSE /\ Enter(NextStage("a"), branches)
         /\ UNCHANGED refspecs

\* git pull --all / git fetch --all exits.  It may fail (GitError).  pull
\* also fast-forwards the checked-out branch to its upstream, and fails
\* when the two have diverged.
UpstreamAllDone ==
    /\ pc = "wait_all"
    /\ \E returncode \in {0, 1} :
        /\ last_exit' = returncode
        /\ IF returncode # 0
           THEN /\ pc' = "raised"
                /\ inflight' = {}
                /\ task' = Cancelled
                /\ dstate' = CancelledFetches
                /\ semaphore' = ReleasedByCancel
                /\ UNCHANGED <<rtrack, tip, began, refspecs>>
           ELSE /\ rtrack' = FetchAll
                /\ IF Cmd("a", "pull --all", "") \in inflight
                   THEN LET target == FetchAll[upstream[head]]
                        IN  /\ target # Absent
                            /\ \/ tip[head] \in Ancestors(target)
                               \/ target \in Ancestors(tip[head])
                            /\ tip' = IF tip[head] \in Ancestors(target)
                                      THEN [tip EXCEPT ![head] = target]
                                      ELSE tip
                   ELSE tip' = tip
                /\ AfterAll
                /\ UNCHANGED <<task, dstate, semaphore>>
    /\ UNCHANGED <<upstream, head, index, worktree, allow_delete,
                   push_remote_url, branch_hashes, npr, cur, issued, acted, ancestry,
                   twice, remote_tip, push_remote, has_urls, branches,
                   remote_branches, pushi, exit_code, exchanged>>

\* git fetch . <upstream>:<name> ...: when every source exists, each
\* destination that is an ancestor of its source moves to it and the others
\* are rejected; the exit code is ignored.
TargetedFetch ==
    IF \E r \in refspecs : rtrack[r[1]] = Absent
    THEN tip
    ELSE [n \in Names |->
            IF \E r \in refspecs :
                   /\ r[2] = Heads(n)
                   /\ tip[n] \in Ancestors(rtrack[r[1]])
            THEN rtrack[upstream[n]]
            ELSE tip[n]]

\* Its exit code: 128 when a source is missing, 1 when a destination is
\* rejected, else 0.
TargetedFetchExit ==
    IF \E r \in refspecs : rtrack[r[1]] = Absent THEN 128
    ELSE IF \E r \in refspecs : tip[r[2][3]] \notin Ancestors(rtrack[r[1]])
         THEN 1
         ELSE 0

UpstreamFetchDone ==
    /\ pc = "wait_fetch"
    /\ last_exit' = TargetedFetchExit
    /\ tip' = TargetedFetch
    /\ IF GitRaises(TargetedFetchExit, FALSE)
       THEN /\ pc' = "raised"
            /\ inflight' = {}
            /\ task' = Cancelled
            /\ dstate' = CancelledFetches
            /\ semaphore' = ReleasedByCancel
            /\ UNCHANGED began
       ELSE /\ Enter(NextStage("a"), branches)
            /\ UNCHANGED <<task, dstate, semaphore>>
    /\ UNCHANGED <<upstream, rtrack, head, index, worktree, allow_delete,
                   push_remote_url, branch_hashes, npr, cur, issued, acted, ancestry,
                   twice, remote_tip, push_remote, has_urls, branches,
                   remote_branches, pushi, refspecs, exit_code, exchanged>>

\* The loop of fast_forward_to_downstream from index i on: spawn the next
\* push, or leave the stage.
PushFrom(rbs, i) ==
    LET k == NextPush(branches, rbs, i)
    IN  IF k # 0
        THEN /\ pc' = "wait_push"
             /\ pushi' = k
             /\ inflight' = {Cmd("b", "push", branches[k].name[3])}
             /\ UNCHANGED began
        ELSE /\ pushi' = Len(branches)
             /\ Enter(NextStage("b"), branches)

\* get_remote_branches returns (or fails).
DownstreamRefsDone ==
    /\ pc = "wait_remote_branches"
    /\ \E returncode \in {0, 128} :
        /\ last_exit' = returncode
        /\ IF returncode # 0
           THEN /\ pc' = "raised"
                /\ inflight' = {}
                /\ task' = Cancelled
                /\ dstate' = CancelledFetches
                /\ semaphore' = ReleasedByCancel
                /\ UNCHANGED <<remote_branches, pushi, began>>
           ELSE /\ remote_branches' = get_remote_branches(push_remote)
                /\ PushFrom(get_remote_branches(push_remote), 0)
                /\ UNCHANGED <<task, dstate, semaphore>>
    /\ UNCHANGED <<repo, allow_delete, push_remote_url, branch_hashes, npr,
                   cur, issued, acted, ancestry, twice, remote_tip, push_remote,
                   has_urls, branches, refspecs, exit_code, exchanged>>

\* git push <push_remote> <name> exits: the remote accepts a fast-forward,
\* anything else is an error.
DownstreamPushDone ==
    /\ pc = "wait_push"
    /\ LET n == branches[pushi].name[3]
           r == Remotes(push_remote, n)
       IN  \E returncode \in {0, 1} :
            /\ last_exit' = returncode
            /\ IF returncode # 0
               THEN /\ pc' = "raised"
                    /\ inflight' = {}
                    /\ task' = Cancelled
                    /\ dstate' = CancelledFetches
                    /\ semaphore' = ReleasedByCancel
                    /\ UNCHANGED <<rtrack, remote_tip, pushi, began>>
               ELSE /\ remote_tip[r] = Absent \/ remote_tip[r] \in Ancestors(tip[n])
                    /\ remote_tip' = [remote_tip EXCEPT ![r] = tip[n]]
                    /\ rtrack' = [rtrack EXCEPT ![r] = tip[n]]
                    /\ PushFrom(remote_branches, pushi)
                    /\ UNCHANGED <<task, dstate, semaphore>>
    /\ UNCHANGED <<tip, upstream, head, index, worktree, allow_delete,
                   push_remote_url, branch_hashes, npr, cur, issued, acted, ancestry,
                   twice, push_remote, has_urls, branches, remote_branches,
                   refspecs, exit_code, exchanged>>

\* The one place where git_sync looks at the task: "pull_requests = await
\* pull_request_task", after fast_forward_to_downstream.
at_await_pull_request_task_any ==
    pc \in {"wait_all", "wait_fetch", "wait_remote_branches", "wait_push",
            "await_task"}

at_await_pull_request_task ==
    pc = "await_task"

\* await pull_request_task: its result is handed to update_merged_prs, its
\* exception is raised in git_sync.
AwaitTask ==
    /\ at_await_pull_request_task
    /\ task \in {"done", "failed"}
    /\ pc' = IF task = "done" THEN "ump_start" ELSE "raised"
    /\ dstate' = IF task = "done" THEN dstate ELSE CancelledFetches
    /\ semaphore' = IF task = "done" THEN semaphore ELSE ReleasedByCancel
    /\ prs' = IF task = "done" THEN JoinedLists ELSE prs
    /\ UNCHANGED <<repo, allow_delete, push_remote_url, branch_hashes, npr,
                   cur, issued, acted, ancestry, run, remote_tip,
                   push_remote, has_urls, task, inflight, began, branches,
                   remote_branches, pushi, refspecs, exit_code, last_exit,
                   exchanged>>

\* The main coroutine is suspended in an await.
MainSuspended ==
    pc \in {"wait_symbolic_ref", "wait_for_each_ref", "wait_all",
            "wait_fetch", "wait_remote_branches", "wait_push", "await_task"}

(* ------------------------ fetch_pull_requests -------------------------- *)

\* Semaphore(max_concurrency).acquire returns at once while its value is
\* positive, else the fetch waits.
SemaphoreFree_unbounded ==
    TRUE

SemaphoreFree ==
    semaphore > 0

\* "if not token: return []".
has_token_always(domain) ==
    TRUE

has_token(domain) ==
    tokens[domain]

\* "if response.errors: raise RuntimeError".
ResponseFails_never(errors) ==
    FALSE

ResponseFails(errors) ==
    errors

\* "if not details_queries: return": the details request is made for a
\* non-empty list of pull requests.
NeedsDetails_always(n) ==
    TRUE

NeedsDetails(n) ==
    n > 0

\* await gather(*tasks): raises the first exception of a fetch as soon as
\* it happens, returns the results when every fetch has returned, and
\* waits otherwise.
gather_dropping_errors ==
    IF \A d \in domains : dstate[d] \in {"done", "failed"} THEN "done"
    ELSE "running"

gather ==
    IF \E d \in domains : dstate[d] = "failed" THEN "failed"
    ELSE IF \A d \in domains : dstate[d] = "done" THEN "done"
    ELSE "running"

\* The task starts: fetch_pull_requests creates the semaphore and one
\* fetch(domain, repos) per domain, and awaits gather.
TaskStart ==
    /\ MainSuspended
    /\ task = "pending"
    /\ task' = IF domains = {} THEN "done" ELSE "running"
    /\ dstate' = [d \in Domains |-> IF d \in domains THEN "queued" ELSE "none"]
    /\ semaphore' = max_concurrency
    /\ UNCHANGED <<repo, allow_delete, push_remote_url, branch_hashes, pc,
                   npr, cur, issued, acted, ancestry, twice, remote_tip, push_remote,
                   has_urls, inflight, began, branches, remote_branches,
                   pushi, refspecs, exit_code, last_exit, exchanged>>

\* fetch(domain, repos) enters the semaphore and looks the token up: without
\* one it returns [], else fetch_pull_requests_from_domain sends the
\* initial request.
FetchAcquire(domain) ==
    /\ MainSuspended
    /\ dstate[domain] = "queued"
    /\ SemaphoreFree
    /\ IF has_token(domain)
       THEN /\ dstate' = [dstate EXCEPT ![domain] = "wait_initial"]
            /\ semaphore' = semaphore - 1
            /\ requests' = [requests EXCEPT
                                ![domain] = Append(@, "initial")]
       ELSE /\ dstate' = [dstate EXCEPT ![domain] = "done"]
            /\ UNCHANGED <<requests, semaphore>>
    /\ UNCHANGED <<repo, allow_delete, push_remote_url, branch_hashes, pc,
                   npr, cur, issued, acted, ancestry, twice, remote_tip, push_remote,
                   has_urls, task, inflight, began, branches,
                   remote_branches, pushi, refspecs, exit_code, last_exit, urls,
                   service, domains, tokens,
                   max_concurrency, responses, nodes, pr_lists>>

\* The initial response arrives, with errors or listing n pull requests.
FetchInitialResponse(domain) ==
    /\ MainSuspended
    /\ dstate[domain] = "wait_initial"
    /\ \E errors \in BOOLEAN, n \in {Len(service[domain])} :
        /\ responses' = [responses EXCEPT
                ![domain] = Append(@, IF errors THEN "errors" ELSE "ok")]
        /\ IF ResponseFails(errors)
           THEN /\ dstate' = [dstate EXCEPT ![domain] = "failed"]
                /\ semaphore' = semaphore + 1
                /\ UNCHANGED <<requests, nodes>>
           ELSE IF NeedsDetails(n)
           THEN /\ dstate' = [dstate EXCEPT ![domain] = "wait_details"]
                /\ UNCHANGED semaphore
                /\ nodes' = [nodes EXCEPT ![domain] = n]
                /\ requests' = [requests EXCEPT
                                   ![domain] = Append(@, "details")]
           ELSE /\ dstate' = [dstate EXCEPT ![domain] = "done"]
                /\ semaphore' = semaphore + 1
                /\ nodes' = [nodes EXCEPT ![domain] = n]
                /\ UNCHANGED requests
    /\ UNCHANGED <<repo, allow_delete, push_remote_url, branch_hashes, pc,
                   npr, cur, issued, acted, ancestry, twice, remote_tip, push_remote,
                   has_urls, task, inflight, began, branches,
                   remote_branches, pushi, refspecs, exit_code, last_exit, urls,
                   service, domains, tokens,
                   max_concurrency, pr_lists>>

\* The details response arrives, with errors or with the data of every
\* pull request asked for; each becomes one PullRequest.
FetchDetailsResponse(domain) ==
    /\ MainSuspended
    /\ dstate[domain] = "wait_details"
    /\ semaphore' = semaphore + 1
    /\ \E errors \in BOOLEAN :
        /\ responses' = [responses EXCEPT
                ![domain] = Append(@, IF errors THEN "errors" ELSE "ok")]
        /\ IF ResponseFails(errors)
           THEN /\ dstate' = [dstate EXCEPT ![domain] = "failed"]
                /\ UNCHANGED pr_lists
           ELSE /\ dstate' = [dstate EXCEPT ![domain] = "done"]
                /\ pr_lists' = [pr_lists EXCEPT
                       ![domain] = [i \in 1..nodes[domain] |->
                                        PullRequest(service[domain][i])]]
    /\ UNCHANGED <<repo, allow_delete, push_remote_url, branch_hashes, pc,
                   npr, cur, issued, acted, ancestry, twice, remote_tip, push_remote,
                   has_urls, task, inflight, began, branches,
                   remote_branches, pushi, refspecs, exit_code, last_exit, urls,
                   service, domains, tokens,
                   max_concurrency, requests, nodes>>

\* gather wakes fetch_pull_requests, which returns the joined lists or
\* raises the exception.
TaskFinish ==
    /\ MainSuspended
    /\ task = "running"
    /\ gather # "running"
    /\ task' = gather
    /\ UNCHANGED <<repo, allow_delete, push_remote_url, branch_hashes, pc,
                   npr, cur, issued, acted, ancestry, twice, remote_tip, push_remote,
                   has_urls, inflight, began, branches, remote_branches,
                   pushi, refspecs, exit_code, last_exit, fetcher>>

Fetch ==
    \E domain \in domains :
        \/ FetchAcquire(domain)
        \/ FetchInitialResponse(domain)
        \/ FetchDetailsResponse(domain)

\* The URL lists fetch_pull_requests is called with: the remotes' URLs by
\* their domains, in any order, a domain possibly more than once.
UrlLists ==
    {<<>>, <<"github.com">>, <<"ghe.example.com">>,
     <<"github.com", "ghe.example.com">>,
     <<"ghe.example.com", "github.com">>,
     <<"ghe.example.com", NoRepository, "github.com", "ghe.example.com">>,
     <<"gitlab.example.com", "github.com", "ghe.example.com">>,
     <<"github.com", "gitlab.example.com", "github.com", "ghe.example.com">>}

\* fetch_pull_requests on its own: git_sync is at "await
\* pull_request_task" from the start.
InitFetch ==
    /\ tip = [main |-> "C", my_pr |-> "B", more_work |-> Absent]
    /\ upstream = [main |-> Remotes("origin", "main"),
                   my_pr |-> Heads("main"), more_work |-> NoUpstream]
    /\ rtrack = [r \in RemoteRefs |->
                    CASE r = Remotes("origin", "main") -> "C"
                      [] r = Remotes("fork", "main")   -> Absent
                      [] r = Remotes("fork", "my_pr")  -> "B"]
    /\ remote_tip = rtrack
    /\ head = "main"
    /\ index = "clean"
    /\ worktree = "clean"
    /\ allow_delete = FALSE
    /\ push_remote_url = "https://fork.git"
    /\ branch_hashes = [n \in Names |-> Absent]
    /\ pc = "await_task"
    /\ npr = 0
    /\ cur = NoPR
    /\ issued = <<>>
    /\ acted = "none"
    /\ ancestry = NoAncestry
    /\ prs = <<>>
    /\ run = 1
    /\ push_remote = "fork"
    /\ has_urls = TRUE
    /\ task = "pending"
    /\ inflight = {}
    /\ began = {"enum", "a", "b"}
    /\ branches = <<>>
    /\ remote_branches = {}
    /\ pushi = 0
    /\ refspecs = {}
    /\ exit_code = None
    /\ last_exit = None
    /\ urls \in UrlLists
    /\ domains = {urls[k] : k \in 1..Len(urls)} \ {NoRepository}
    /\ service \in {[d \in Domains |->
                        IF d \in domains
                        THEN ServiceList(ServiceFirst(d), n[d]) ELSE <<>>] :
                    n \in [Domains -> 0..MaxNodes]}
    /\ tokens \in {t \in [Domains -> BOOLEAN] :
                        \A d \in Domains : t[d] => d \in domains}
    /\ max_concurrency \in 1..MaxConcurrency
    /\ dstate = [d \in Domains |-> "none"]
    /\ semaphore = max_concurrency
    /\ requests = [d \in Domains |-> <<>>]
    /\ responses = [d \in Domains |-> <<>>]
    /\ nodes = [d \in Domains |-> 0]
    /\ pr_lists = [d \in Domains |-> <<>>]

NextFetch ==
    \/ TaskStart
    \/ Fetch
    \/ TaskFinish
    \/ AwaitTask
    \/ StartUpdateMergedPrs
    \/ ProcessFetchedPR
    \/ FinishFetchedPrs

SpecFetch == InitFetch /\ [][NextFetch]_vars

\* The event loop runs every coroutine that is ready, and every request
\* gets its response.
FairFetch ==
    /\ WF_vars(TaskStart)
    /\ WF_vars(TaskFinish)
    /\ WF_vars(AwaitTask)
    /\ \A domain \in Domains :
        /\ WF_vars(FetchAcquire(domain))
        /\ WF_vars(FetchInitialResponse(domain))
        /\ WF_vars(FetchDetailsResponse(domain))

SpecFetchFair == SpecFetch /\ FairFetch

\* A repository with a remote origin (upstream of main) and, when a push
\* remote is configured, the remote fork.  origin/main has moved on since
\* the last fetch; my_pr may have been deleted on the fork since then, and
\* its remote-tracking ref may have been pruned while my_pr still names it
\* as upstream.
InitSync ==
    /\ tip \in {[main |-> m, my_pr |-> "B", more_work |-> "D"] :
                    m \in {"A", "B"}}
    /\ upstream \in {[main |-> Remotes("origin", "main"), my_pr |-> u,
                      more_work |-> NoUpstream] :
                    u \in {Heads("main"), Remotes("fork", "my_pr"),
                           Remotes("origin", "main")}}
    /\ head \in {"main", "my_pr", Detached}
    /\ index = "clean"
    /\ worktree = "clean"
    /\ push_remote \in {None, "fork"}
    /\ has_urls \in BOOLEAN
    /\ rtrack \in {[r \in RemoteRefs |->
                        CASE r = Remotes("origin", "main") -> "A"
                          [] r = Remotes("fork", "main")   -> f
                          [] r = Remotes("fork", "my_pr")  -> g] :
                    f \in {Absent, "A"}, g \in {Absent, "B"}}
    /\ remote_tip \in {[rtrack EXCEPT ![Remotes("origin", "main")] = "C",
                                      ![Remotes("fork", "my_pr")] = f] :
                    f \in {Absent, rtrack[Remotes("fork", "my_pr")]}}
    /\ allow_delete = TRUE
    /\ push_remote_url = "https://fork.git"
    /\ branch_hashes = [n \in Names |-> Absent]
    /\ pc = "sync_start"
    /\ npr = 0
    /\ cur = NoPR
    /\ issued = <<>>
    /\ acted = "none"
    /\ ancestry = NoAncestry
    /\ prs = <<>>
    /\ run = 1
    /\ task = "none"
    /\ inflight = {}
    /\ began = {}
    /\ branches = <<>>
    /\ remote_branches = {}
    /\ pushi = 0
    /\ refspecs = {}
    /\ exit_code = None
    /\ last_exit = None
    /\ urls = IF has_urls THEN <<"github.com", "ghe.example.com">> ELSE <<>>
    /\ domains = {urls[k] : k \in 1..Len(urls)}
    /\ service = [d \in Domains |->
                    IF d = "github.com" /\ has_urls
                    THEN ServiceList(ServiceFirst(d), MaxNodes) ELSE <<>>]
    /\ tokens \in {t \in [Domains -> BOOLEAN] :
                        /\ t["github.com"] = has_urls
                        /\ \A d \in Domains : t[d] => d \in domains}
    /\ max_concurrency = 5
    /\ dstate = [d \in Domains |-> "none"]
    /\ semaphore = max_concurrency
    /\ requests = [d \in Domains |-> <<>>]
    /\ responses = [d \in Domains |-> <<>>]
    /\ nodes = [d \in Domains |-> 0]
    /\ pr_lists = [d \in Domains |-> <<>>]

NextSync ==
    \/ GitSyncStart
    \/ EnumCurrentBranchDone
    \/ EnumBranchesDone
    \/ UpstreamAllDone
    \/ UpstreamFetchDone
    \/ DownstreamRefsDone
    \/ DownstreamPushDone
    \/ TaskStart
    \/ Fetch
    \/ TaskFinish
    \/ AwaitTask
    \/ StartUpdateMergedPrs
    \/ ProcessPR
    \/ FinishUpdateMergedPrs

SpecSync == InitSync /\ [][NextSync]_vars

(* ====================================================================== *)
(* Properties of update_merged_prs, checked under Spec.                    *)
(* ====================================================================== *)

\* The step just taken is one iteration of the loop of update_merged_prs;
\* cur' is the pull request it handled.
Processing == npr' = npr + 1

\* Some other local branch has refs/heads/<b> as its configured upstream.
IsUpstreamOfAnother(b) ==
    \E n \in LocalBranches \ {b} : upstream[n] = Heads(b)

\* The gates as the specification states them, on the repository as it is
\* when the pull request is handled: merged, the branch exists, the merge
\* commit is not its tip, the push remote hosts the pull request, and the
\* tip is an ancestor of the newest commit of the pull request.
GatesHold(pr) ==
    /\ pr.merged_hash # None
    /\ tip[pr.branch_name] # Absent
    /\ pr.merged_hash # tip[pr.branch_name]
    /\ push_remote_url \in pr.repo_urls
    /\ pr.branch_hash \in Commits
    /\ tip[pr.branch_name] \in Ancestors(pr.branch_hash)

\* The pull request being handled passes the gates: they hold and git
\* merge-base ran to an answer.
GatesPassed == GatesHold(cur') /\ ancestry'.outcome # "raise"

\* No staged changes and no unstaged changes to tracked files.
Clean == index = "clean" /\ worktree = "clean"

Issues(cmds, name) == \E k \in 1..Len(cmds) : cmds[k][1] = name
ForceIssued(cmds) == Issues(cmds, "branch --force") \/ Issues(cmds, "reset --hard")
DeleteIssued(cmds) == Issues(cmds, "branch -D")

\* C1 (ancestry gate): when the tip of the branch named by a merged pull
\* request is not an ancestor of the pull request's newest commit, handling
\* that pull request issues no mutating command and leaves the repository
\* (branches, HEAD, index, working tree) as it was.
C1_AncestryGate ==
    [][ ( /\ Processing
          /\ cur'.merged_hash # None
          /\ tip[cur'.branch_name] # Absent
          /\ cur'.branch_hash \in Commits
          /\ tip[cur'.branch_name] \notin Ancestors(cur'.branch_hash) )
        => (issued' = <<>> /\ UNCHANGED repo) ]_vars

\* A pull request that passes the filter was handled while the branch has
\* a commit the pull request does not, and nothing was done.
C1_Witness ==
    /\ npr = 1
    /\ cur.merged_hash # None
    /\ push_remote_url \in cur.repo_urls
    /\ branch_hashes[cur.branch_name] \notin {Absent, cur.merged_hash}
    /\ tip = branch_hashes
    /\ cur.branch_hash \in Commits
    /\ tip[cur.branch_name] \notin Ancestors(cur.branch_hash)
    /\ issued = <<>>
    /\ acted = "none"

\* C2 (never lose uncommitted work): while the checked-out branch has
\* staged changes or unstaged changes to tracked files, no step of
\* update_merged_prs changes HEAD, the tip of the checked-out branch, the
\* index or the working tree.
C2_NeverLoseUncommittedWork ==
    [][ (head # Detached /\ ~Clean)
        => ( /\ head' = head
             /\ tip'[head] = tip[head]
             /\ index' = index
             /\ worktree' = worktree ) ]_vars

\* A merged pull request of the checked-out branch passed every gate and
\* was skipped because of staged changes.
C2_Witness ==
    /\ npr >= 1
    /\ acted = "skip_dirty"
    /\ head = cur.branch_name
    /\ index = "staged"
    /\ GatesHold(cur)

ExpectedHead(b) ==
    IF StartsWithHeads(upstream[b]) THEN upstream[b][3] ELSE "main"

\* C7: when the checked-out branch is clean, passes the gates, is not an
\* upstream of another branch and allow_delete is true, the branch no
\* longer exists after its pull request is handled and HEAD is on its
\* local upstream branch, or on main when it has no local upstream.
C7_DeleteActive ==
    [][ ( /\ Processing
          /\ allow_delete
          /\ head = cur'.branch_name
          /\ Clean
          /\ GatesPassed
          /\ ~IsUpstreamOfAnother(cur'.branch_name) )
        => ( /\ tip'[cur'.branch_name] = Absent
             /\ head' = ExpectedHead(cur'.branch_name) ) ]_vars

\* C8 (frame): a step of update_merged_prs changes the tip of an existing
\* local branch, or deletes it, only when the step handles a pull request
\* with a merged hash whose head branch has that name.
C8_Frame ==
    [][ \A n \in Names :
            (tip[n] # Absent /\ tip'[n] # tip[n])
            => ( /\ Processing
                 /\ cur'.branch_name = n
                 /\ cur'.merged_hash # None ) ]_vars

\* C9 (idempotence): a second run of update_merged_prs on the same list,
\* right after the first has returned, issues no mutating git command and
\* leaves the repository as the first run left it.
C9_Idempotent ==
    [][ (run = 2 /\ Processing) => (issued' = <<>> /\ UNCHANGED repo) ]_vars

\* my_pr was deleted or moved while main and more_work exist untouched.
C8_Witness ==
    /\ npr = 1
    /\ cur.branch_name = "my_pr"
    /\ issued # <<>>
    /\ tip["my_pr"] # branch_hashes["my_pr"]
    /\ tip["main"] # Absent /\ tip["main"] = branch_hashes["main"]
    /\ tip["more_work"] # Absent
    /\ tip["more_work"] = branch_hashes["more_work"]

\* C21 (is_ancestor and exit codes): a call of is_ancestor returns True
\* exactly when merge-base exits with 0 and False exactly when it exits
\* with 1; on any other exit code it raises GitError with that code.  When
\* both revisions resolve and the command runs undisturbed, True means that
\* the first commit is the second or one of its ancestors.
C21_IsAncestorExitCodes ==
    [][ (Processing /\ ancestry'.called) =>
            /\ ancestry'.outcome = "true" <=> ancestry'.exit = 0
            /\ ancestry'.outcome = "false" <=> ancestry'.exit = 1
            /\ ancestry'.outcome = "raise" <=> ancestry'.exit \notin {0, 1}
            /\ ancestry'.error =
                    IF ancestry'.outcome = "raise" THEN ancestry'.exit ELSE 0
            /\ ancestry'.exit \in {0, 1} =>
                    (ancestry'.outcome = "true" <=>
                        tip[cur'.branch_name] \in Ancestors(cur'.branch_hash))
      ]_vars

\* is_ancestor(child, base) returned False: the branch is at D, the pull
\* request's commit is B, the parent of D.
C21_Witness ==
    /\ ancestry.called
    /\ ancestry.exit = 1
    /\ ancestry.outcome = "false"
    /\ cur.branch_hash = "B"
    /\ tip[cur.branch_name] = "D"
    /\ "B" \in Parents["D"]

\* C22 (ancestry failure is isolated): when the ancestry check of a pull
\* request fails with a GitError, that iteration changes nothing in the
\* repository, issues no command and raises nothing: the loop goes on with
\* the next pull request from the state it had before.
C22_AncestryFailureIsolated ==
    [][ (Processing /\ ancestry'.outcome = "raise") =>
            /\ UNCHANGED <<repo, branch_hashes>>
            /\ issued' = <<>>
            /\ acted' = "none"
            /\ pc' = "ump_loop"
      ]_vars

\* The commit of a pull request is not in the local repository, its check
\* failed with 128, and the loop is at its next iteration.
C22_Witness ==
    /\ ancestry.called
    /\ ancestry.outcome = "raise"
    /\ ancestry.exit = 128
    /\ cur.branch_hash = Gone
    /\ pc = "ump_loop"
    /\ npr = 1

\* C23 (only a missing object is skipped): a GitError of the ancestry check
\* that is not the failure to resolve a revision (exit code 128) leaves
\* update_merged_prs as an exception.
C23_OtherErrorsPropagate ==
    [][ (Processing /\ ancestry'.outcome = "raise"
                    /\ ancestry'.exit # 128) =>
            pc' = "ump_raised"
      ]_vars

\* C26 (acts only on a differing tip): whenever update_merged_prs issues a
\* command for a pull request, the pull request's merge commit is not the
\* tip the branch has at that moment, also when an earlier pull request of
\* the same list has moved the branch since the map was read.
C26_ActsOnlyWhenTipDiffers ==
    [][ (Processing /\ issued' # <<>>) =>
            cur'.merged_hash # tip[cur'.branch_name]
      ]_vars

\* C27 (preconditions of any mutation): update_merged_prs issues a command
\* for a pull request only if the pull request has a merge commit, its head
\* branch is a local branch, and the URL of the push remote is one of its
\* repository URLs; a pull request without repository URLs changes nothing.
C27_MutationPreconditions ==
    [][ Processing =>
            /\ issued' # <<>> =>
                    /\ cur'.merged_hash # None
                    /\ tip[cur'.branch_name] # Absent
                    /\ push_remote_url \in cur'.repo_urls
            /\ cur'.repo_urls = {} =>
                    /\ issued' = <<>>
                    /\ UNCHANGED repo
      ]_vars

\* A merged pull request whose head repository is gone was handled: its
\* branch is behind its commit and differs from the merge commit, and
\* nothing was done.
C27_Witness ==
    /\ npr > 0
    /\ cur.repo_urls = {}
    /\ cur.merged_hash # None
    /\ tip[cur.branch_name] # Absent
    /\ tip[cur.branch_name] # cur.merged_hash
    /\ tip[cur.branch_name] \in Ancestors(cur.branch_hash)
    /\ issued = <<>>
    /\ acted = "none"

(* ====================================================================== *)
(* Properties of git_sync, checked under SpecSync.                         *)
(* ====================================================================== *)

Rank(stage) ==
    CASE stage = "enum" -> 0
      [] stage = "a"    -> 1
      [] stage = "b"    -> 2
      [] stage = "c"    -> 3

\* The stages that spawn a git command in the step just taken.
Spawning == {c.stage : c \in inflight' \ inflight} \cup (began' \ began)

\* C10 (stage ordering): whenever a stage spawns a git command, every
\* command of the other stages has exited (the new command is the only one
\* running), no later stage has spawned anything yet, and every earlier
\* stage has run: (a) fetch_and_fast_forward_to_upstream is over before
\* (b) fast_forward_to_downstream starts, and (b) is over before
\* (c) update_merged_prs starts, whatever the pull request task does.
C10_StageOrder ==
    [][ \A s \in Spawning :
            /\ \A c \in inflight' : c.stage = s
            /\ \A c \in inflight : c.stage = s \/ c \notin inflight'
            /\ \A e \in began : Rank(e) <= Rank(s)
            /\ \A e \in {"enum", "a", "b"} : Rank(e) < Rank(s) => e \in began
      ]_vars

\* update_merged_prs has acted on a branch after both earlier stages ran,
\* the second of them having pushed.
C10_Witness ==
    /\ began = {"enum", "a", "b", "c"}
    /\ pc = "ump_loop"
    /\ task = "done"
    /\ pushi > 0
    /\ inflight = {}
    /\ issued # <<>>

\* The git subprocesses that change the repository or a remote.
Mutating(c) == c.name \in {"pull --all", "fetch --all", "fetch .", "push"}

\* A step of the pull request task or of one of its fetches.
TaskStep == pc' = pc /\ (task' # task \/ dstate' # dstate)

\* C11 (no concurrent git mutations): at most one git-mutating subprocess
\* is running at any time, update_merged_prs issues its commands while
\* none is running, and a step of the pull request task spawns no git
\* command and changes nothing in the repository: the task is the only
\* work that overlaps a git operation.
C11_NoConcurrentGit ==
    [][ /\ Cardinality({c \in inflight' : Mutating(c)}) <= 1
        /\ (npr' # npr /\ issued' # <<>>) => (inflight = {} /\ inflight' = {})
        /\ TaskStep => UNCHANGED <<inflight, issued, repo, remote_tip, began>>
      ]_vars

\* A push is running while a GraphQL request of a fetch is in flight.
C11_Witness ==
    /\ \E c \in inflight : c.name = "push"
    /\ \E d \in domains : dstate[d] = "wait_details"
    /\ task = "running"

(* ====================================================================== *)
(* Properties of fetch_pull_requests, checked under SpecFetch.             *)
(* ====================================================================== *)

\* C12 (concurrency bound): the number of per-domain fetches between
\* acquiring and releasing the semaphore never exceeds max_concurrency,
\* however many domains there are.
C12_ConcurrencyBound ==
    Cardinality(Holders) <= max_concurrency

\* The semaphore is exhausted and a further domain is waiting for it.
C12_Witness ==
    /\ Cardinality(Holders) = max_concurrency
    /\ Cardinality(domains) > max_concurrency
    /\ \E d \in domains : dstate[d] = "queued"

\* C13 (no token): a domain whose token lookup returns nothing is never
\* sent a GraphQL request and never fails; its fetch returns the empty
\* list, and its return changes nothing for the other domains.
C13_NoTokenNoRequest ==
    [][ \A d \in domains : ~tokens[d] =>
            /\ requests'[d] = <<>>
            /\ pr_lists'[d] = <<>>
            /\ dstate'[d] \in {"none", "queued", "done", "cancelled"}
            /\ (dstate[d] # "done" /\ dstate'[d] = "done") =>
                    \A e \in domains \ {d} :
                        /\ dstate'[e] = dstate[e]
                        /\ requests'[e] = requests[e]
                        /\ pr_lists'[e] = pr_lists[e]
      ]_vars

\* fetch_pull_requests has returned; a domain without a token contributed
\* nothing and another domain contributed its pull requests.
C13_Witness ==
    /\ task = "done"
    /\ \E d \in domains : ~tokens[d] /\ dstate[d] = "done"
    /\ \E e \in domains : tokens[e] /\ pr_lists[e] # <<>>

\* C14 (GraphQL errors fail the domain): once the initial or the details
\* response of a domain has reported errors, the fetch of that domain has
\* failed and has produced no PullRequest: there is no partial result.
C14_ErrorsFailDomain ==
    \A d \in domains :
        (\E i \in 1..Len(responses[d]) : responses[d][i] = "errors") =>
            /\ dstate[d] = "failed"
            /\ pr_lists[d] = <<>>

\* A domain listed pull requests in its initial response and reported
\* errors in its details response.
C14_Witness ==
    \E d \in domains :
        /\ responses[d] = <<"ok", "errors">>
        /\ nodes[d] > 0
        /\ dstate[d] = "failed"

\* C16 (join after every fetch): fetch_pull_requests has returned or raised
\* only when every per-domain fetch has finished, completed or failed; none
\* is still waiting or running, and none was cancelled.
C16_JoinAfterAll ==
    task \in {"done", "failed"} =>
        \A d \in domains : dstate[d] \in {"done", "failed"}

\* C17 (two-phase protocol): a domain is sent at most the initial and then
\* the details request; the details request has been sent exactly when the
\* initial response has arrived without errors and listed at least one
\* pull request, so a domain with zero pull requests gets one request.
C17_TwoPhase ==
    \A d \in domains :
        /\ requests[d] \in {<<>>, <<"initial">>, <<"initial", "details">>}
        /\ Len(responses[d]) <= Len(requests[d])
        /\ Len(requests[d]) = 2 <=>
                /\ Len(responses[d]) >= 1
                /\ responses[d][1] = "ok"
                /\ nodes[d] > 0

\* One domain answered the initial request with zero pull requests and is
\* done after that single request; another was sent both requests.
C17_Witness ==
    \E d, e \in domains :
        /\ requests[d] = <<"initial">>
        /\ responses[d] = <<"ok">>
        /\ nodes[d] = 0
        /\ dstate[d] = "done"
        /\ requests[e] = <<"initial", "details">>
        /\ dstate[e] = "done"

(* ====================================================================== *)
(* Properties of git_sync with its pull request task, under SpecSync.      *)
(* ====================================================================== *)

\* A response of the domain has reported GraphQL errors.
ErrorReported(d) ==
    \E i \in 1..Len(responses[d]) : responses[d][i] = "errors"

\* C15 (errors are never dropped): once a domain has reported GraphQL
\* errors, fetch_pull_requests does not return a list (its task does not
\* complete with a result), update_merged_prs is not started, and git_sync
\* does not end normally: the failure reaches the caller.
C15_ErrorsNeverDropped ==
    (\E d \in domains : ErrorReported(d)) =>
        /\ task # "done"
        /\ "c" \notin began
        /\ pc \notin {"ump_start", "ump_loop", "ump_done", "ump_raised",
                      "sync_done"}

\* One domain reported errors after another had returned its pull requests;
\* git_sync raised at "await pull_request_task", after both earlier stages.
C15_Witness ==
    /\ pc = "raised"
    /\ task = "failed"
    /\ began = {"enum", "a", "b"}
    /\ \E d, e \in domains :
            /\ ErrorReported(d)
            /\ dstate[e] = "done"
            /\ pr_lists[e] # <<>>

\* C18 (targeted fetch may fail): when the batched "git fetch . ..." of
\* fetch_and_fast_forward_to_upstream exits with a nonzero code, no
\* GitError is raised: git_sync goes on to fast_forward_to_downstream (or
\* ends normally when there is no push remote).
C18_TargetedFetchTolerated ==
    [][ (pc = "wait_fetch" /\ TargetedFetchExit # 0 /\ pc' # pc) =>
            /\ pc' = IF push_remote # None THEN "wait_remote_branches"
                     ELSE "sync_done"
            /\ push_remote # None => "b" \in began'
            /\ exit_code' = None
      ]_vars

\* main has diverged from origin/main and is not checked out, so the
\* targeted fetch was rejected for it; update_merged_prs is running.
C18_Witness ==
    /\ pc = "ump_loop"
    /\ npr = 0
    /\ head # "main"
    /\ tip["main"] = "B"
    /\ rtrack[Remotes("origin", "main")] = "C"
    /\ began = {"enum", "a", "b", "c"}

\* C19 (push eligibility): fast_forward_to_downstream spawns "git push
\* <push_remote> <branch>" only when refs/remotes/<push_remote>/<branch>
\* exists and is not the branch's upstream, and no step creates a branch on
\* a remote that did not have it.
C19_PushEligibility ==
    [][ /\ \A c \in inflight' \ inflight : c.name = "push" =>
                LET r == Remotes(push_remote, c.arg)
                IN  /\ r \in RemoteRefs
                    /\ rtrack[r] # Absent
                    /\ upstream[c.arg] # r
        /\ \A r \in RemoteRefs :
                remote_tip[r] = Absent => remote_tip'[r] = Absent
      ]_vars

\* The part of C19 about which branches are pushed.
C19_PushOnlyTracked ==
    [][ \A c \in inflight' \ inflight : c.name = "push" =>
                LET r == Remotes(push_remote, c.arg)
                IN  /\ r \in RemoteRefs
                    /\ rtrack[r] # Absent
                    /\ upstream[c.arg] # r
      ]_vars

\* C20 (enumeration failure is fatal): when the for-each-ref of
\* get_branches_with_remote_upstreams exits with a nonzero code, git_sync
\* exits with exactly that code; no stage has spawned a command before, the
\* repository and the remotes are as they were, and nothing is spawned or
\* changed afterwards.
C20_EnumerationFailureExits ==
    [][ /\ (pc = "wait_for_each_ref" /\ pc' # pc /\ last_exit' # 0) =>
                /\ pc' = "exited"
                /\ exit_code' = last_exit'
                /\ began' = {"enum"}
                /\ inflight' = {}
                /\ issued' = <<>>
                /\ UNCHANGED <<repo, remote_tip>>
        /\ pc = "exited" =>
                /\ pc' = "exited"
                /\ UNCHANGED <<repo, remote_tip, inflight, began, issued,
                               exit_code>>
      ]_vars

\* The enumeration failed with code 128 while the pull request task was
\* running; git_sync exited with 128.
C20_Witness ==
    /\ pc = "exited"
    /\ last_exit = 128
    /\ exit_code = 128
    /\ task = "cancelled"
    /\ \E d \in domains : dstate[d] = "cancelled"

\* C28 (destinations of the targeted fetch): the targeted fetch of stage
\* (a) names as destinations exactly the local branches that are not
\* checked out and whose upstream is a remote-tracking ref, each with its
\* upstream as source; when there is no such branch, stage (a) ends without
\* a targeted fetch.
FetchDestinations ==
    {n \in LocalBranches : n # head /\ StartsWithRemotes(upstream[n])}

C28_TargetedFetchDestinations ==
    [][ (pc = "wait_all" /\ pc' \notin {"wait_all", "raised"}) =>
            IF FetchDestinations = {}
            THEN /\ pc' # "wait_fetch"
                 /\ Cmd("a", "fetch .", "") \notin inflight'
            ELSE /\ pc' = "wait_fetch"
                 /\ Cmd("a", "fetch .", "") \in inflight'
                 /\ refspecs' = {<<upstream[n], Heads(n)>> :
                                    n \in FetchDestinations}
      ]_vars

\* main is checked out and tracks origin/main, my_pr tracks origin/main
\* too, more_work has no upstream: the targeted fetch is for my_pr alone.
C28_Witness ==
    /\ pc = "wait_fetch"
    /\ head = "main"
    /\ StartsWithRemotes(upstream["main"])
    /\ upstream["more_work"] = NoUpstream
    /\ refspecs = {<<Remotes("origin", "main"), Heads("my_pr")>>}

\* C29 (stage (a) only fast-forwards): when the targeted fetch of stage (a)
\* has run, every destination that was an ancestor of its upstream is at
\* its upstream, every other destination keeps its tip, and no branch has
\* lost a commit.
C29_FastForwardOnly ==
    [][ (pc = "wait_fetch" /\ pc' # "wait_fetch") =>
            /\ \A r \in refspecs :
                LET n == r[2][3]
                IN  /\ rtrack[r[1]] # Absent /\ tip[n] \in Ancestors(rtrack[r[1]])
                        => tip'[n] = rtrack[r[1]]
                    /\ rtrack[r[1]] # Absent /\ tip[n] \notin Ancestors(rtrack[r[1]])
                        => tip'[n] = tip[n]
            /\ \A n \in Names : tip[n] # Absent =>
                    /\ tip'[n] # Absent
                    /\ tip[n] \in Ancestors(tip'[n])
      ]_vars

(* ====================================================================== *)
(* Properties of the pull requests fetch_pull_requests returns, checked    *)
(* under SpecFetch.                                                        *)
(* ====================================================================== *)

\* C24 (hashes and merged_hash of a fetched pull request): every
\* PullRequest built from a details response has one hash per commit the
\* service returned, in the reverse of the service's order (newest first),
\* and its merged_hash is the oid of the merge commit when there is one and
\* None when there is none.
C24_HashesNewestFirst ==
    \A d \in Domains : \A i \in 1..Len(pr_lists[d]) :
        LET pr == pr_lists[d][i]
            pr_data == service[d][i]
            n == Len(pr_data.commits)
        IN  /\ Len(pr.hashes) = n
            /\ \A k \in 1..n : pr.hashes[k] = pr_data.commits[n + 1 - k]
            /\ pr_data.mergeCommit.oid # None
                    => pr.merged_hash = pr_data.mergeCommit.oid
            /\ pr_data.mergeCommit.oid = None => pr.merged_hash = None

\* A domain returned a merged pull request with the commits B, D (hashes
\* D, B) and a pull request without merge commit.
C24_Witness ==
    \E d \in Domains :
        /\ Len(pr_lists[d]) >= 2
        /\ \E i \in 1..Len(pr_lists[d]) :
                /\ service[d][i].commits = <<"B", "D">>
                /\ pr_lists[d][i].hashes = <<"D", "B">>
                /\ pr_lists[d][i].merged_hash = "C"
        /\ \E i \in 1..Len(pr_lists[d]) : pr_lists[d][i].merged_hash = None

\* C25 (the gate uses the newest recorded commit): a fetched pull request
\* that is merged, whose branch exists with another tip than the merge
\* commit and whose repository is the push remote's, is reconciled exactly
\* when the tip of the branch is the first element of its hashes or an
\* ancestor of it, and otherwise skipped.
C25_GateOnNewestHash ==
    [][ (Processing /\ "hashes" \in DOMAIN cur'
                    /\ cur'.merged_hash # None
                    /\ tip[cur'.branch_name] # Absent
                    /\ cur'.merged_hash # tip[cur'.branch_name]
                    /\ push_remote_url \in cur'.repo_urls) =>
            IF tip[cur'.branch_name] \in Ancestors(cur'.hashes[1])
            THEN /\ issued' # <<>>
                 /\ pc' = "ump_loop"
            ELSE /\ issued' = <<>>
                 /\ pc' = "ump_loop"
      ]_vars

\* The domains of the URLs in the order of their first appearance.
FirstAppearance(d) ==
    CHOOSE k \in 1..Len(urls) :
        urls[k] = d /\ \A j \in 1..(k - 1) : urls[j] # d

DomainsInOrder ==
    CHOOSE o \in [1..Cardinality(domains) -> domains] :
        \A i, j \in 1..Cardinality(domains) :
            i < j => FirstAppearance(o[i]) < FirstAppearance(o[j])

\* What the service returns for a domain, as PullRequest objects.
Returned(d) ==
    IF tokens[d]
    THEN [i \in 1..Len(service[d]) |-> PullRequest(service[d][i])]
    ELSE <<>>

RECURSIVE InOrder(_)
InOrder(k) ==
    IF k = 0 THEN <<>> ELSE InOrder(k - 1) \o Returned(DomainsInOrder[k])

\* C30 (the returned list does not depend on scheduling): the list that
\* fetch_pull_requests returns is determined by the URLs, the tokens and the
\* responses alone: the pull requests of the domains in the order in which
\* the domains first appear among the URLs, each domain's in the order of
\* its details response.
C30_DeterministicList ==
    pc \in {"ump_start", "ump_loop", "ump_done", "ump_raised"} =>
        prs = InOrder(Cardinality(domains))

\* ghe.example.com comes first among the URLs and github.com second, both
\* returned pull requests, ghe.example.com two of them: its two come
\* first in the list.
C30_Witness ==
    /\ pc = "ump_start"
    /\ repos_by_domain(urls) = <<"ghe.example.com", "github.com">>
    /\ Len(pr_lists["ghe.example.com"]) = 2
    /\ Len(pr_lists["github.com"]) = 1
    /\ Len(prs) = 3
    /\ prs[1].branch_name = "main"
    /\ prs[3].branch_name = "my_pr"

\* Every fetch(domain, repos) has ended: returned, raised or been cancelled.
AllEnded ==
    /\ task \notin {"none", "pending"}
    /\ \A d \in domains : dstate[d] \in {"done", "failed", "cancelled"}

\* The permits are accounted for: every permit that is not free is held by
\* a fetch inside "async with semaphore", and all are free when every
\* fetch has ended.
C31_PermitsAccounted ==
    /\ semaphore = max_concurrency - Cardinality(Holders)
    /\ AllEnded => semaphore = max_concurrency

\* Barring a failure of another domain, a queued fetch gets its turn and
\* finishes.
C31_ProgressBarringFailure ==
    \A d \in Domains :
        (dstate[d] = "queued") ~>
            (dstate[d] \in {"done", "failed"}
                \/ \E e \in domains : dstate[e] = "failed")

\* C31 (slots are released, queued domains proceed): the permit of a fetch
\* is released on every way out, so that, every request getting its
\* response, every queued domain eventually starts and finishes its fetch,
\* and all permits are free once all fetches have ended.
C31_SlotsReleased ==
    /\ [](AllEnded => semaphore = max_concurrency)
    /\ \A d \in Domains :
        (dstate[d] = "queued") ~> (dstate[d] \in {"done", "failed"})

(* ====================================================================== *)
(* Further properties of git_sync, checked under SpecSync.                 *)
(* ====================================================================== *)

\* C32 (no push remote): when no default push remote is configured,
\* git_sync runs the enumeration and the upstream stage only: no push and no
\* command of a later stage is spawned, the pull request task is not
\* created and no request is sent, update_merged_prs is not entered, no
\* branch is deleted, and a branch moves only forward, by the upstream
\* stage.
C32_NoPushRemoteUpstreamOnly ==
    [][ push_remote = None =>
            /\ began' \subseteq {"enum", "a"}
            /\ \A c \in inflight' : c.name # "push" /\ c.stage \in {"enum", "a"}
            /\ task' = "none"
            /\ \A d \in Domains : requests'[d] = <<>> /\ dstate'[d] = "none"
            /\ npr' = 0
            /\ issued' = <<>>
            /\ pc' \notin {"ump_start", "ump_loop", "ump_done", "ump_raised"}
            /\ remote_tip' = remote_tip
            /\ \A n \in Names :
                /\ tip[n] # Absent => tip'[n] # Absent
                /\ tip'[n] # tip[n] =>
                        /\ pc \in {"wait_all", "wait_fetch"}
                        /\ tip[n] \in Ancestors(tip'[n])
      ]_vars

\* Without a push remote, in a repository whose remotes have URLs,
\* git_sync has ended after fast-forwarding main to origin/main.
C32_Witness ==
    /\ push_remote = None
    /\ has_urls
    /\ pc = "sync_done"
    /\ began = {"enum", "a"}
    /\ task = "none"
    /\ tip["main"] = "C"
    /\ rtrack[Remotes("origin", "main")] = "C"

\* C33 (a fetch failure is seen only at the await): the failure of the pull
\* request task changes nothing for the main coroutine when it happens;
\* git_sync raises because of it only at "await pull_request_task", when the
\* upstream and the downstream stage have run and no git command is
\* running; before that it raises only for a git command that failed; and
\* once the task has failed update_merged_prs is never entered.
C33_FailureSeenAtAwait ==
    [][ /\ (task' = "failed" /\ task # "failed") =>
                UNCHANGED <<pc, inflight, began, repo, remote_tip, exit_code>>
        /\ (pc' = "raised" /\ pc # "raised") =>
                \/ /\ pc = "await_task"
                   /\ task = "failed"
                   /\ began = {"enum", "a", "b"}
                   /\ inflight = {}
                \/ /\ pc \in {"wait_all", "wait_fetch", "wait_remote_branches",
                              "wait_push"}
                   /\ last_exit' # 0
        /\ task' = "failed" =>
                /\ "c" \notin began'
                /\ npr' = 0
                /\ issued' = <<>>
                /\ pc' \notin {"ump_start", "ump_loop", "ump_done",
                               "ump_raised"}
      ]_vars

\* The task has already failed while the downstream stage is still
\* pushing.
C33_Witness ==
    /\ task = "failed"
    /\ pc = "wait_push"
    /\ \E c \in inflight : c.name = "push"
    /\ began = {"enum", "a", "b"}
    /\ \E d \in domains : ErrorReported(d)

(* ====================================================================== *)
(* A further property of update_merged_prs, checked under Spec.            *)
(* ====================================================================== *)

\* C34 (the branch checked out before a deletion): whenever the delete
\* path is taken for the checked-out branch, the branch named in the
\* checkout is an existing local branch other than the one to be deleted,
\* the deletion is issued with HEAD on that other branch, and no GitError
\* comes out of it.
C34_CheckoutBeforeDelete ==
    [][ (Processing /\ acted' = "delete" /\ head = cur'.branch_name) =>
            /\ issued'[1][1] = "checkout"
            /\ tip[issued'[1][2]] # Absent
            /\ issued'[1][2] # cur'.branch_name
            /\ DeleteIssued(issued')
            /\ head' = issued'[1][2]
            /\ tip'[cur'.branch_name] = Absent
            /\ pc' # "ump_raised"
      ]_vars

============================================================================
